---- MODULE Spec2Model ----
(***************************************************************************)
(* QueueCTL: the job store (storage.py), the job record (job.py), the      *)
(* worker loop (worker.py) and the enqueue / dlq retry commands (cli.py).  *)
(*                                                                         *)
(* Every worker is an OS process with its own sqlite connection; the       *)
(* control plane is one short-lived CLI invocation at a time.  The store   *)
(* is the sqlite file: every statement group that a connection commits is  *)
(* one step, and a store call may instead raise (database is locked, I/O). *)
(***************************************************************************)
EXTENDS Integers, FiniteSets, Sequences, TLC

\* ------------------------------------------------------------------ bounds
MaxTime == 1
MaxRetries == 1

\* --------------------------------------------------------------- constants
Workers == {"w1", "w2"}
JobIds == {"j1", "j2"}
\* a command that exits with status 0 / one that fails on every execution
\* (non-zero exit status, or the 300 s timeout)
Commands == {"ok", "fail"}
NULL == -1
\* the clock is read in ticks of half a second
TicksPerSecond == 2
NoWorker == "none"
NoJob == [id |-> "none"]
backoff_base == 2

VARIABLES
    db,           \* the jobs table: id -> row
    now,          \* the UTC wall clock, in ticks
    pc,           \* position of each worker in Worker.run
    current_job,  \* Worker.current_job (the Job object the worker mutates)
    cli,          \* the dlq retry invocation in progress, if any
    reply,        \* the last call of a single caller of the store, and its result
    handed,       \* history: workers handed a job since it last became claimable
    executions,   \* history: executions of a job since enqueue / dlq retry
    failures,     \* history: failed executions a worker has recorded
    alive,        \* which worker processes exist (Process.is_alive())
    handling,     \* which workers are inside _handle_signal, waiting for the job
    stop_event,   \* the multiprocessing.Event shared with the running workers
    processes,    \* WorkerManager.processes: the handles of the acting manager
    pid_file,     \* ~/.queuectl/workers.pid: the pids it lists, or NoFile
    mgr,          \* position of the acting manager in start_workers / stop_workers
    zombie,       \* which worker processes have ended and are not yet waited for
    issued,       \* history: worker ids the acting manager has given out
    config_file,  \* ~/.queuectl/config.json, merged over the defaults
    config        \* Config._config of each worker process

vars == <<db, now, pc, current_job, cli, reply,
          handed, executions, failures,
          alive, handling, stop_event, processes, pid_file, mgr,
          zombie, issued, config_file, config>>

workerVars == <<pc, current_job>>
histVars == <<executions, failures>>
supVars == <<alive, handling, stop_event, processes, pid_file, mgr,
             zombie, issued>>
cfgVars == <<config_file, config>>

RECURSIVE Pow(_, _)
Pow(b, n) == IF n = 0 THEN 1 ELSE b * Pow(b, n - 1)

\* ---------------------------------------------------------------- datetime
\* A datetime object is its wall-clock reading t (in ticks) and its tzinfo:
\* "naive" (tzinfo None) or "utc".  Python compares a naive and an aware
\* datetime as unequal, which record equality does here.
None == [tz |-> "none"]

\* datetime.utcnow(): a naive datetime
utcnow(t) == [t |-> t, tz |-> "naive"]

\* dt + timedelta(seconds = seconds)
plus_seconds(dt, seconds) == [dt EXCEPT !.t = @ + seconds * TicksPerSecond]

\* dt.replace(tzinfo=None) if dt.tzinfo else dt
naive_utc(dt) == [dt EXCEPT !.tz = "naive"]

\* A TEXT timestamp column holds dt.isoformat() + "Z" of a naive dt; the model
\* keeps the reading t that the text spells.  isoformat() prints no fraction
\* when microsecond = 0, so within one second the texts "...SS.500000Z" and
\* "...SS" + "Z" compare as '.' < 'Z': sort_key(t) is the rank of the text of
\* t in sqlite's (bytewise) TEXT order.
isoformat_z(dt) == dt.t

sort_key(text) ==
    TicksPerSecond * (text \div TicksPerSecond)
        + (IF text % TicksPerSecond = 0 THEN TicksPerSecond - 1
           ELSE (text % TicksPerSecond) - 1)

\* the SQL comparison text1 <= text2 on TEXT values
text_le(text1, text2) == sort_key(text1) <= sort_key(text2)

\* datetime.fromisoformat(text.replace("Z", "+00:00")): an aware datetime
fromisoformat(text) == [t |-> text, tz |-> "utc"]

\* --------------------------------------------------------------- config.py
\* _load_config lines 35-38: the defaults; the model's default max_retries is
\* its bound (the code's is 3)
default_config == [max_retries |-> MaxRetries, backoff_base |-> backoff_base]

\* Config.get: the value held in self._config
Config_get(cfg, key) == cfg[key]

\* ------------------------------------------------------------------ job.py
NewJob(id, command, max_retries, t) ==
    [id |-> id, command |-> command, state |-> "pending", attempts |-> 0,
     max_retries |-> max_retries, created_at |-> utcnow(t),
     updated_at |-> utcnow(t), next_retry_at |-> None]

mark_completed(j, t) ==
    [j EXCEPT !.state = "completed", !.updated_at = utcnow(t)]

mark_failed(j, next_retry_at, t) ==
    [j EXCEPT !.state = "failed", !.attempts = @ + 1, !.updated_at = utcnow(t),
              !.next_retry_at = next_retry_at]

mark_dead(j, t) ==
    [j EXCEPT !.state = "dead", !.updated_at = utcnow(t)]

\* the retry budget is not consulted
should_retry_no_budget(j) ==
    j.state \in {"failed", "processing"}

should_retry(j) ==
    j.attempts < j.max_retries /\ j.state = "failed"

\* -------------------------------------------------------------- storage.py
\* the value bound to a nullable timestamp column
nullable_text(dt) ==
    IF dt = None THEN NULL ELSE isoformat_z(naive_utc(dt))

row_to_job(row) ==
    [id |-> row.id, command |-> row.command, state |-> row.state,
     attempts |-> row.attempts, max_retries |-> row.max_retries,
     created_at |-> fromisoformat(row.created_at),
     updated_at |-> fromisoformat(row.updated_at),
     next_retry_at |-> IF row.next_retry_at = NULL THEN None
                       ELSE fromisoformat(row.next_retry_at)]

job_to_row(j) ==
    [id |-> j.id, command |-> j.command, state |-> j.state,
     attempts |-> j.attempts, max_retries |-> j.max_retries,
     created_at |-> isoformat_z(naive_utc(j.created_at)),
     updated_at |-> isoformat_z(naive_utc(j.updated_at)),
     next_retry_at |-> nullable_text(j.next_retry_at), worker_id |-> NoWorker]

\* INSERT OR REPLACE: a row with the same id is overwritten
inserted_or_replaced_rows(rows, j) ==
    (j.id :> job_to_row(j)) @@ rows

\* add_job lines 67-81: INSERT INTO jobs; id is the PRIMARY KEY, so a row with
\* the same id raises IntegrityError and the table is left as it was
inserted_rows(rows, j) ==
    IF j.id \in DOMAIN rows THEN rows ELSE (j.id :> job_to_row(j)) @@ rows

\* what add_job returns
add_job_result(rows, j) == j.id \notin DOMAIN rows

\* UPDATE jobs SET state, attempts, updated_at, next_retry_at, worker_id
\* WHERE id = ?
updated_rows(rows, j, worker_id) ==
    IF j.id \in DOMAIN rows
    THEN [rows EXCEPT ![j.id] = [@ EXCEPT !.state = j.state,
                                          !.attempts = j.attempts,
                                          !.updated_at =
                                              isoformat_z(naive_utc(j.updated_at)),
                                          !.next_retry_at =
                                              nullable_text(j.next_retry_at),
                                          !.worker_id = worker_id]]
    ELSE rows

\* a write of state PENDING or FAILED starts a new claimable episode
updated_handed(j) ==
    IF j.state \in {"pending", "failed"}
    THEN [handed EXCEPT ![j.id] = {}]
    ELSE handed

update_job(j, worker_id) ==
    /\ db' = updated_rows(db, j, worker_id)
    /\ handed' = updated_handed(j)

\* the state = 'pending' condition is missing from the first SELECT
PendingCandidates_any_state(t) ==
    {id \in DOMAIN db :
        db[id].next_retry_at = NULL \/ text_le(db[id].next_retry_at, t)}

\* SELECT ... WHERE state = 'pending' AND (next_retry_at IS NULL OR
\* next_retry_at <= now)
PendingCandidates(t) ==
    {id \in DOMAIN db : /\ db[id].state = "pending"
                        /\ \/ db[id].next_retry_at = NULL
                           \/ text_le(db[id].next_retry_at, t)}

\* the second query also takes back rows that stand in PROCESSING
FailedCandidates_or_processing(t) ==
    {id \in DOMAIN db : db[id].state \in {"failed", "processing"}}

\* a NULL next_retry_at counts as due, as it does in the first query
FailedCandidates_null_is_due(t) ==
    {id \in DOMAIN db : /\ db[id].state = "failed"
                        /\ \/ db[id].next_retry_at = NULL
                           \/ text_le(db[id].next_retry_at, t)}

\* SELECT ... WHERE state = 'failed' AND next_retry_at <= now
FailedCandidates(t) ==
    {id \in DOMAIN db : /\ db[id].state = "failed"
                        /\ db[id].next_retry_at # NULL
                        /\ text_le(db[id].next_retry_at, t)}

\* ORDER BY created_at ASC LIMIT 1 (any of the oldest rows on a tie)
Oldest(S) ==
    {id \in S : \A other \in S : text_le(db[id].created_at, db[other].created_at)}

Candidates(t) ==
    IF PendingCandidates(t) # {} THEN Oldest(PendingCandidates(t))
    ELSE Oldest(FailedCandidates(t))

\* the claiming UPDATE has no id condition: every row in the observed state
\* is claimed
claimed_rows_any_id(rows, id, observed_state, worker_id) ==
    [i \in DOMAIN rows |->
        IF rows[i].state = observed_state
        THEN [rows[i] EXCEPT !.state = "processing", !.worker_id = worker_id]
        ELSE rows[i]]

\* the claiming UPDATE records the worker but leaves the state as it was
claimed_rows_keeps_state(rows, id, observed_state, worker_id) ==
    IF rows[id].state = observed_state
    THEN [rows EXCEPT ![id] = [@ EXCEPT !.worker_id = worker_id]]
    ELSE rows

\* UPDATE jobs SET state = 'processing', worker_id = ? WHERE id = ? AND state = ?
claimed_rows(rows, id, observed_state, worker_id) ==
    IF rows[id].state = observed_state
    THEN [rows EXCEPT ![id] = [@ EXCEPT !.state = "processing",
                                        !.worker_id = worker_id]]
    ELSE rows

\* rowcount of that UPDATE
claim_rowcount(rows, id, observed_state) ==
    IF rows[id].state = observed_state THEN 1 ELSE 0

\* --------------------------------------------------------------- worker.py
\* the job is marked FAILED, with no retry time, whatever its budget
handle_failure_never_dead(j, t, cfg) ==
    mark_failed(j, None, t)

\* Worker._handle_failure, on the Job object, with the worker's Config
handle_failure(j, t, cfg) ==
    IF should_retry(j)
    THEN mark_failed(j, plus_seconds(utcnow(t),
                        Pow(Config_get(cfg, "backoff_base"), j.attempts)), t)
    ELSE mark_dead(j, t)

\* what subprocess.run does with the command: the outcomes it can have
run_command(command) ==
    IF command = "ok" THEN {"completed"} ELSE {"failed", "timeout"}

\* current_job is not reset after _process_job
cleared_job_kept(j) == j

\* Worker.run line 50
cleared_job(j) == NoJob

\* the worker process exists and its main thread is not held in the signal
\* handler
Runs_without_process(w) == ~handling[w]

Runs(w) == alive[w] /\ ~handling[w]

\* the stop event is not looked at
loop_condition_always == TRUE

\* Worker.run line 40: while not self.stop_event.is_set()
loop_condition == ~stop_event

\* Worker.run line 42 -> get_pending_job: one BEGIN IMMEDIATE transaction
\* (select, verify, claim, commit), which sqlite serializes with every other
\* write to the file; then Worker.run lines 44-49: no job -> sleep and
\* continue; else current_job = job and _process_job starts the command
GetPendingJob(w) ==
    /\ Runs(w) /\ loop_condition
    /\ pc[w] = "poll"
    /\ IF Candidates(isoformat_z(utcnow(now))) = {}
       THEN /\ pc' = [pc EXCEPT ![w] = "poll"]
            /\ UNCHANGED <<db, handed, current_job>>
       ELSE \E id \in Candidates(isoformat_z(utcnow(now))) :
              LET row == db[id] IN
              IF claim_rowcount(db, id, row.state) > 0
              THEN /\ db' = claimed_rows(db, id, row.state, w)
                   /\ handed' = [handed EXCEPT ![id] = @ \cup {w}]
                   /\ current_job' = [current_job EXCEPT ![w] =
                                [row_to_job(row) EXCEPT !.state = "processing"]]
                   /\ pc' = [pc EXCEPT ![w] = "running"]
              ELSE /\ pc' = [pc EXCEPT ![w] = "poll"]
                   /\ UNCHANGED <<db, handed, current_job>>
    /\ UNCHANGED <<now, cli, reply, histVars, supVars, cfgVars>>

\* the handler counts the fault as a failed attempt of the job
fault_handler_counts_attempt(w, j) ==
    /\ IF j = NoJob
       THEN UNCHANGED <<db, handed, current_job>>
       ELSE LET failed == [j EXCEPT !.state = "failed", !.attempts = @ + 1] IN
            /\ current_job' = [current_job EXCEPT ![w] = failed]
            /\ \/ update_job(failed, w)
               \/ UNCHANGED <<db, handed>>
    /\ pc' = [pc EXCEPT ![w] = "poll"]

\* Worker.run lines 54-62, the handler of an exception that reaches the loop,
\* with j the Job object current_job refers to: the best-effort update_job
\* either succeeds or raises and is swallowed; then sleep and continue
fault_handler(w, j) ==
    /\ IF j = NoJob
       THEN UNCHANGED <<db, handed, current_job>>
       ELSE LET failed == [j EXCEPT !.state = "failed"] IN
            /\ current_job' = [current_job EXCEPT ![w] = failed]
            /\ \/ update_job(failed, w)
               \/ UNCHANGED <<db, handed>>
    /\ pc' = [pc EXCEPT ![w] = "poll"]

\* get_pending_job raises (database is locked, I/O error): rollback, re-raise
\* into Worker.run's handler
GetPendingJobRaises(w) ==
    /\ Runs(w) /\ loop_condition
    /\ pc[w] = "poll"
    /\ fault_handler(w, current_job[w])
    /\ UNCHANGED <<now, cli, reply, histVars, supVars, cfgVars>>

\* _process_job lines 68-79: the command exits with status 0 and update_job
\* succeeds; Worker.run line 50
RecordCompleted(w) ==
    /\ Runs(w)
    /\ pc[w] = "running"
    /\ "completed" \in run_command(current_job[w].command)
    /\ LET j == mark_completed(current_job[w], now) IN
       /\ update_job(j, w)
       /\ current_job' = [current_job EXCEPT ![w] = cleared_job(j)]
       /\ executions' = [executions EXCEPT ![j.id] = @ + 1]
    /\ pc' = [pc EXCEPT ![w] = "poll"]
    /\ UNCHANGED <<now, cli, reply, failures, supVars, cfgVars>>

\* _process_job lines 68-79: the command exits with status 0 and update_job
\* raises, which line 90 catches
RecordCompletedRaises(w) ==
    /\ Runs(w)
    /\ pc[w] = "running"
    /\ "completed" \in run_command(current_job[w].command)
    /\ current_job' = [current_job EXCEPT ![w] = mark_completed(@, now)]
    /\ executions' = [executions EXCEPT ![current_job[w].id] = @ + 1]
    /\ pc' = [pc EXCEPT ![w] = "on_error"]
    /\ UNCHANGED <<db, now, cli, reply, handed, failures, supVars, cfgVars>>

\* the command has just ended in a failure (line 82 or 86), or line 90 has
\* caught an exception (line 93)
EntersHandleFailure(w, result) ==
    \/ pc[w] = "running" /\ result \in run_command(current_job[w].command)
                         /\ result # "completed"
    \/ pc[w] = "on_error" /\ result = "error"

\* history: subprocess.run (lines 69-75) has run the job's command once more
executed(w, id) ==
    IF pc[w] = "running" THEN [executions EXCEPT ![id] = @ + 1] ELSE executions

\* _handle_failure (called from line 82, 86 or 93), update_job succeeds;
\* Worker.run line 50
HandleFailure(w) ==
    /\ Runs(w)
    /\ \E result \in {"failed", "timeout", "error"} : EntersHandleFailure(w, result)
    /\ LET j == handle_failure(current_job[w], now, config[w]) IN
       /\ update_job(j, w)
       /\ current_job' = [current_job EXCEPT ![w] = cleared_job(j)]
       /\ failures' = [failures EXCEPT ![j.id] =
                         IF j.command = "ok" THEN @ ELSE @ + 1]
       /\ executions' = executed(w, j.id)
    /\ pc' = [pc EXCEPT ![w] = "poll"]
    /\ UNCHANGED <<now, cli, reply, supVars, cfgVars>>

\* _handle_failure, update_job raises: from line 82 (inside the try) the
\* exception is caught by line 90, from an except clause it reaches Worker.run's
\* handler
HandleFailureRaises(w) ==
    /\ Runs(w)
    /\ \E result \in {"failed", "timeout", "error"} :
         /\ EntersHandleFailure(w, result)
         /\ IF result = "failed"
            THEN /\ current_job' = [current_job EXCEPT ![w] = handle_failure(@, now, config[w])]
                 /\ pc' = [pc EXCEPT ![w] = "on_error"]
                 /\ UNCHANGED <<db, handed>>
            ELSE fault_handler(w, handle_failure(current_job[w], now, config[w]))
    /\ executions' = executed(w, current_job[w].id)
    /\ UNCHANGED <<now, cli, reply, failures, supVars, cfgVars>>

\* no start_workers / stop_workers call is in progress
NoCall == [pc |-> "idle", op |-> "none", count |-> 0, todo |-> {}, cur |-> NoWorker]

\* ------------------------------------------------------------------ cli.py
NoReply == [seq |-> 0, op |-> "none"]

Idle == [pc |-> "idle", job |-> NoJob]

\* enqueue -> Storage.add_job
Enqueue(id, command, max_retries) ==
    /\ cli.pc = "idle"
    /\ db' = inserted_rows(db, NewJob(id, command, max_retries, now))
    /\ cli' = Idle
    /\ UNCHANGED <<now, reply, workerVars, handed, histVars, supVars, cfgVars>>

\* a finished job is accepted for retry as well as a dead one
retry_rejects_unfinished(j) == j.state \notin {"dead", "completed"}

\* no job is refused
retry_rejects_nothing(j) == FALSE

\* dlq retry: the check on the job read by get_job
retry_rejects(j) == j.state # "dead"

\* dlq retry lines 276-286: get_job and the two checks
RetryRead(id) ==
    /\ cli.pc = "idle"
    /\ cli' = IF id \notin DOMAIN db THEN Idle
              ELSE IF retry_rejects(row_to_job(db[id])) THEN Idle
              ELSE [pc |-> "retry_write", job |-> row_to_job(db[id])]
    /\ UNCHANGED <<db, now, reply, workerVars, handed, histVars, supVars, cfgVars>>

\* dlq retry lines 289-291: the reset of the Job object read by get_job
retry_reset(j) ==
    [j EXCEPT !.state = "pending", !.attempts = 0, !.next_retry_at = None]

\* dlq retry lines 288-292: reset the job and update_job
RetryWrite ==
    /\ cli.pc = "retry_write"
    /\ LET j == retry_reset(cli.job) IN
       /\ update_job(j, NoWorker)
       /\ executions' = [executions EXCEPT ![j.id] = 0]
       /\ failures' = [failures EXCEPT ![j.id] = 0]
    /\ cli' = Idle
    /\ UNCHANGED <<now, reply, workerVars, supVars, cfgVars>>

\* ------------------------------------------------------------------- clock
Tick ==
    /\ now < MaxTime
    /\ now' = now + 1
    /\ UNCHANGED <<db, workerVars, cli, reply, handed, histVars, supVars, cfgVars>>

\* ----------------------------------------------------------- specification
\* an empty jobs table, no worker has a job
InitJobs ==
    /\ db = [id \in {} |-> 0]
    /\ now = 0
    /\ pc = [w \in Workers |-> "poll"]
    /\ current_job = [w \in Workers |-> NoJob]
    /\ cli = Idle
    /\ reply = NoReply
    /\ handed = [id \in JobIds |-> {}]
    /\ executions = [id \in JobIds |-> 0]
    /\ failures = [id \in JobIds |-> 0]

\* the workers have been started by an earlier `worker start` and no manager
\* is acting
Init ==
    /\ InitJobs
    /\ alive = [w \in Workers |-> TRUE]
    /\ handling = [w \in Workers |-> FALSE]
    /\ stop_event = FALSE
    /\ processes = {}
    /\ pid_file = Workers
    /\ mgr = NoCall
    /\ zombie = [w \in Workers |-> FALSE]
    /\ issued = {}
    /\ config_file = default_config
    /\ config = [w \in Workers |-> default_config]

Next ==
    \/ \E w \in Workers : GetPendingJob(w)
    \/ \E w \in Workers : GetPendingJobRaises(w)
    \/ \E w \in Workers : RecordCompleted(w)
    \/ \E w \in Workers : RecordCompletedRaises(w)
    \/ \E w \in Workers : HandleFailure(w)
    \/ \E w \in Workers : HandleFailureRaises(w)
    \/ \E id \in JobIds, command \in Commands, max_retries \in 0..MaxRetries :
          Enqueue(id, command, max_retries)
    \/ \E id \in JobIds : RetryRead(id)
    \/ RetryWrite
    \/ Tick

Spec == Init /\ [][Next]_vars

\* ------------------------------------------- workers that run undisturbed
\* No store call raises, the operator only enqueues, and each worker process
\* keeps running its loop: a worker that can take a step eventually takes it.
LiveNext ==
    \/ \E w \in Workers : GetPendingJob(w)
    \/ \E w \in Workers : RecordCompleted(w)
    \/ \E w \in Workers : HandleFailure(w)
    \/ \E id \in JobIds, command \in Commands, max_retries \in 0..MaxRetries :
          Enqueue(id, command, max_retries)
    \/ Tick

WorkersKeepRunning ==
    \A w \in Workers :
        /\ WF_vars(GetPendingJob(w))
        /\ WF_vars(RecordCompleted(w))
        /\ WF_vars(HandleFailure(w))

LiveSpec == Init /\ [][LiveNext]_vars /\ WorkersKeepRunning

\* ------------------------------------------------- the store, one caller
\* The calls of the store and of dlq retry made one after the other by a
\* single caller; the table is filled by add_job with arbitrary Job objects,
\* and any id is added again with the Job that enqueue makes.  The caller's
\* last call and what it returned are kept in reply.
JobStates == {"pending", "processing", "completed", "failed", "dead"}

\* the datetimes a Job object may carry, as utcnow() makes them
Datetimes == {utcnow(t) : t \in 0..MaxTime}

\* Job objects handed to add_job; a retry time only on PENDING and FAILED jobs
Jobs ==
    {j \in [id : JobIds, command : {"ok"}, state : JobStates, attempts : {0},
            max_retries : {MaxRetries}, created_at : Datetimes,
            updated_at : Datetimes, next_retry_at : {None} \cup Datetimes] :
        /\ j.updated_at = j.created_at
        /\ j.next_retry_at # None => j.state \in {"pending", "failed"}}

\* arguments and results are kept as records: a Job, [id |-> ...],
\* [worker_id |-> ...], [returned |-> ...], [message |-> ...]
called(op, arg, result) ==
    [seq |-> 1 - reply.seq, op |-> op, arg |-> arg, result |-> result]

\* Storage.add_job
add_job(j) ==
    /\ db' = inserted_rows(db, j)
    /\ reply' = called("add_job", j, [returned |-> add_job_result(db, j)])
    /\ UNCHANGED <<now, workerVars, cli, handed, histVars, supVars, cfgVars>>

\* Storage.get_job
get_job(id) ==
    /\ reply' = called("get_job", [id |-> id],
                       IF id \in DOMAIN db THEN row_to_job(db[id]) ELSE NoJob)
    /\ UNCHANGED <<db, now, workerVars, cli, handed, histVars, supVars, cfgVars>>

\* Storage.get_pending_job
get_pending_job(w) ==
    /\ IF Candidates(isoformat_z(utcnow(now))) = {}
       THEN /\ reply' = called("get_pending_job", [worker_id |-> w], NoJob)
            /\ UNCHANGED db
       ELSE \E id \in Candidates(isoformat_z(utcnow(now))) :
              LET row == db[id] IN
              IF claim_rowcount(db, id, row.state) > 0
              THEN /\ db' = claimed_rows(db, id, row.state, w)
                   /\ reply' = called("get_pending_job", [worker_id |-> w],
                                 [row_to_job(row) EXCEPT !.state = "processing"])
              ELSE /\ reply' = called("get_pending_job", [worker_id |-> w], NoJob)
                   /\ UNCHANGED db
    /\ UNCHANGED <<now, workerVars, cli, handed, histVars, supVars, cfgVars>>

\* dlq retry, the whole command (cli.py lines 276-294) and the message it prints
retry(id) ==
    /\ IF id \notin DOMAIN db
       THEN /\ reply' = called("retry", [id |-> id], [message |-> "not found"])
            /\ UNCHANGED <<db, handed>>
       ELSE IF retry_rejects(row_to_job(db[id]))
       THEN /\ reply' = called("retry", [id |-> id],
                            [message |-> "is not in Dead Letter Queue"])
            /\ UNCHANGED <<db, handed>>
       ELSE /\ update_job(retry_reset(row_to_job(db[id])), NoWorker)
            /\ reply' = called("retry", [id |-> id],
                            [message |-> "moved back to pending queue"])
    /\ UNCHANGED <<now, workerVars, cli, histVars, supVars, cfgVars>>

StoreNext ==
    \/ \E j \in Jobs : j.id \notin DOMAIN db /\ add_job(j)
    \/ \E id \in JobIds : add_job(NewJob(id, "ok", MaxRetries, now))
    \/ \E id \in JobIds : get_job(id)
    \/ \E w \in Workers : get_pending_job(w)
    \/ \E id \in JobIds : retry(id)
    \/ Tick

StoreSpec == Init /\ [][StoreNext]_vars

\* the step is a call op(arg) of the single caller
Calls(op, arg) ==
    reply'.seq # reply.seq /\ reply'.op = op /\ reply'.arg = arg

\* ------------------------------------------ enqueue and the config file
\* The operator enqueues jobs with or without a max_retries of their own and
\* rewrites the config file while the workers run.
\* the values config set writes for backoff_base
BackoffBases == {backoff_base, backoff_base + 1}

\* the JSON objects given to enqueue; max_retries = NULL stands for an object
\* without that key
JobData ==
    [id : JobIds, command : Commands, max_retries : {NULL} \cup (0..MaxRetries)]

\* the job keeps the library default of Job.__init__, whatever the file says
enqueue_max_retries_default(data, cfg) ==
    IF data.max_retries = NULL THEN MaxRetries ELSE data.max_retries

\* enqueue line 100: data.get("max_retries", get_config().get("max_retries", 3))
enqueue_max_retries(data, cfg) ==
    IF data.max_retries = NULL THEN Config_get(cfg, "max_retries")
    ELSE data.max_retries

\* enqueue, the whole command (cli.py lines 94-112); its Config is loaded
\* from the file by this invocation
enqueue(data) ==
    Enqueue(data.id, data.command, enqueue_max_retries(data, config_file))

\* config set (cli.py lines 309-336) -> Config.set: the invocation's Config,
\* loaded from the file, gets the value and is written back
ConfigSet(key, value) ==
    /\ config_file' = [config_file EXCEPT ![key] = value]
    /\ UNCHANGED <<db, now, workerVars, cli, reply, handed, histVars, supVars,
                   config>>

ConfigNext ==
    \/ \E data \in JobData : enqueue(data)
    \/ \E value \in 0..MaxRetries : ConfigSet("max_retries", value)
    \/ \E value \in BackoffBases : ConfigSet("backoff_base", value)
    \/ \E w \in Workers : GetPendingJob(w)
    \/ \E w \in Workers : RecordCompleted(w)
    \/ \E w \in Workers : HandleFailure(w)
    \/ \E id \in JobIds : RetryRead(id)
    \/ RetryWrite
    \/ Tick

ConfigSpec == Init /\ [][ConfigNext]_vars

\* ------------------------------------------------------------------ claims
\* a worker holds its job in flight from the committed claim until it has
\* recorded an outcome or its fault handler has run
InFlight(w) ==
    pc[w] \in {"running", "on_error"}

Stored == DOMAIN db

\* C1: get_pending_job calls of different workers never hand out the same job
\* within one claimable episode of that job: between two writes that make a
\* job claimable, at most one caller is returned it.
C1_NoDoubleClaim ==
    \A id \in JobIds : Cardinality(handed[id]) <= 1

\* two workers have both been returned a job by get_pending_job
C1_Witness ==
    \E w1, w2 \in Workers :
        /\ w1 # w2
        /\ pc[w1] = "running" /\ pc[w2] = "running"
        /\ handed[current_job[w1].id] = {w1}
        /\ handed[current_job[w2].id] = {w2}

\* C2: at most one worker holds a given job in flight, in every reachable
\* state of workers, enqueue and dlq retry running interleaved.
C2_SingleExecutor ==
    \A w1, w2 \in Workers :
        (w1 # w2 /\ InFlight(w1) /\ InFlight(w2))
            => current_job[w1].id # current_job[w2].id

\* two workers are in flight at once, one of them on a job revived by dlq retry
C2_Witness ==
    \E w1, w2 \in Workers :
        /\ w1 # w2
        /\ InFlight(w1) /\ InFlight(w2)
        /\ db[current_job[w1].id].worker_id = w1
        /\ executions[current_job[w1].id] = 0
        /\ current_job[w1].updated_at.t < now

\* C3: a job whose command always fails is executed max_retries + 1 times:
\* it is FAILED with a retry time after each of the first max_retries
\* failures, and DEAD only after the (max_retries + 1)-th.
C3_ExecutedMaxRetriesPlusOne ==
    \A id \in Stored :
        db[id].command = "fail" =>
            /\ db[id].state = "dead" => executions[id] = db[id].max_retries + 1
            /\ (failures[id] \in 1..db[id].max_retries /\ db[id].state # "processing")
                  => (db[id].state = "failed" /\ db[id].next_retry_at # NULL)

\* C4: every DEAD job has attempts = max_retries + 1.
C4_DeadHasExhaustedBudget ==
    \A id \in Stored :
        db[id].state = "dead" => db[id].attempts = db[id].max_retries + 1

\* C5: the stored attempts of a job equal the number of failed executions
\* workers have recorded for it since enqueue or the last dlq retry.
C5_AttemptsCountFailures ==
    \A id \in Stored : db[id].attempts = failures[id]

\* C6: the step that records the n-th failed execution of a job, n <=
\* max_retries, sets next_retry_at to the recording time + backoff_base^n.
C6_BackoffDelay ==
    [][\A id \in Stored :
          (failures'[id] = failures[id] + 1 /\ failures'[id] <= db[id].max_retries)
              => db'[id].next_retry_at =
                     now + TicksPerSecond * Pow(backoff_base, failures'[id])]_vars

\* C7: attempts <= max_retries + 1 for every stored job, in every reachable
\* state.
C7_AttemptsBounded ==
    \A id \in Stored : db[id].attempts <= db[id].max_retries + 1

\* a failed execution of a job with no retry budget has been recorded, some
\* time after the job was enqueued
C7_Witness ==
    \E id \in Stored :
        /\ db[id].command = "fail"
        /\ db[id].max_retries = 0
        /\ db[id].state = "dead"
        /\ failures[id] = 1
        /\ db[id].updated_at > db[id].created_at

\* C8: no step changes the state or the attempts of a COMPLETED job.
C8_CompletedIsTerminal ==
    [][\A id \in Stored :
          db[id].state = "completed"
              => (db'[id].state = "completed" /\ db'[id].attempts = db[id].attempts)]_vars

\* a job is COMPLETED, and the worker that completed it has since had its
\* fault handler write FAILED for a later job, which it still refers to
C8_Witness ==
    \E id \in Stored, w \in Workers :
        /\ db[id].state = "completed"
        /\ db[id].worker_id = w
        /\ pc[w] = "poll"
        /\ current_job[w] # NoJob
        /\ current_job[w].id # id
        /\ db[current_job[w].id].state = "failed"

\* C9: the only step that takes a job out of DEAD is the write of a dlq retry
\* of that job, which makes it PENDING.
C9_DeadOnlyLeavesByRetry ==
    [][\A id \in Stored :
          (db[id].state = "dead" /\ db'[id].state # "dead")
              => /\ cli.pc = "retry_write" /\ cli.job.id = id
                 /\ cli'.pc = "idle"
                 /\ db'[id].state = "pending"]_vars

\* a job is DEAD, written by a worker whose fault handler has since written
\* FAILED for a later job, which it still refers to while polling
C9_Witness ==
    \E id \in Stored, w \in Workers :
        /\ db[id].state = "dead"
        /\ db[id].worker_id = w
        /\ pc[w] = "poll"
        /\ current_job[w] # NoJob
        /\ current_job[w].id # id
        /\ db[current_job[w].id].state = "failed"

\* C10: next_retry_at is set iff the job is FAILED with attempts <= max_retries.
C10_NextRetryIffFailed ==
    \A id \in Stored :
        (db[id].next_retry_at # NULL)
            <=> (db[id].state = "failed" /\ db[id].attempts <= db[id].max_retries)

\* the step is the update_job of a dlq retry of job id
RetryWrites(id) ==
    cli.pc = "retry_write" /\ cli.job.id = id /\ cli'.pc = "idle"

\* the step is a get_pending_job of worker w that returns a job
Claims(w) ==
    pc[w] = "poll" /\ pc'[w] = "running"

\* every other claimable PENDING job was created later than job id
NoOlderPending(id) ==
    \A other \in PendingCandidates(now) \ {id} :
        db[other].created_at > db[id].created_at

\* job id is PENDING by a dlq retry: enqueue stores updated_at = created_at,
\* and dlq retry leaves the updated_at of the DEAD write
Revived(id) ==
    db[id].state = "pending" /\ db[id].updated_at # db[id].created_at

\* C11: dlq retry of a DEAD job stores it as PENDING with attempts = 0 and
\* next_retry_at = NULL, which makes it claimable; and a get_pending_job
\* that finds the revived job, with every other claimable PENDING job
\* younger, returns it.
C11_RetryRevives ==
    [][\A id \in Stored :
          /\ (RetryWrites(id) /\ db[id].state = "dead")
                => /\ db'[id].state = "pending"
                   /\ db'[id].attempts = 0
                   /\ db'[id].next_retry_at = NULL
                   /\ (id \in PendingCandidates(now))'
          /\ (Revived(id) /\ id \in PendingCandidates(now) /\ NoOlderPending(id))
                => /\ Candidates(now) = {id}
                   /\ \A w \in Workers : Claims(w) =>
                         /\ current_job'[w].id = id
                         /\ db'[id].state = "processing"
                         /\ db'[id].worker_id = w]_vars

\* C12: a dlq retry of an id that is not stored prints "not found", a dlq
\* retry of a stored job that is PENDING, PROCESSING, COMPLETED or FAILED
\* prints "is not in Dead Letter Queue", and either call, made any number of
\* times, leaves the jobs table as it was.
C12_RetryRejectsWithoutChange ==
    [][\A id \in JobIds :
          Calls("retry", [id |-> id]) =>
              /\ id \notin Stored
                    => (reply'.result.message = "not found" /\ db' = db)
              /\ (id \in Stored /\ db[id].state # "dead")
                    => /\ reply'.result.message = "is not in Dead Letter Queue"
                       /\ db' = db]_vars

\* dlq retry has just been refused on a job that a worker id had claimed
C12_Witness ==
    /\ reply.op = "retry"
    /\ reply.result.message = "is not in Dead Letter Queue"
    /\ db[reply.arg.id].state = "processing"
    /\ db[reply.arg.id].worker_id \in Workers

\* C13: add_job returns False exactly when a row with the job's id is
\* stored; in that case the table is left as it was, and otherwise the job's
\* row is the only one added and every other row is left as it was.
C13_AddJobRefusesDuplicate ==
    [][(reply'.seq # reply.seq /\ reply'.op = "add_job") =>
          LET j == reply'.arg IN
          /\ reply'.result.returned = (j.id \notin Stored)
          /\ j.id \in Stored => db' = db
          /\ j.id \notin Stored =>
                /\ DOMAIN db' = Stored \cup {j.id}
                /\ \A other \in Stored : db'[other] = db[other]]_vars

\* add_job has just returned False for a job that differs from the stored,
\* finished job of the same id
C13_Witness ==
    /\ reply.op = "add_job"
    /\ reply.result.returned = FALSE
    /\ db[reply.arg.id].state = "completed"
    /\ db[reply.arg.id] # job_to_row(reply.arg)
    /\ Cardinality(Stored) = 2

\* C14: a get_job(j.id) that directly follows a successful add_job(j) returns
\* a Job equal to j on id, command, state, attempts, max_retries, created_at,
\* updated_at and next_retry_at.
C14_AddThenGetRoundTrip ==
    [][(reply.op = "add_job" /\ reply.result.returned = TRUE
           /\ Calls("get_job", [id |-> reply.arg.id]))
          => reply'.result = reply.arg]_vars

\* C15: get_pending_job returns the oldest PENDING job that is due (no
\* next_retry_at, or next_retry_at <= now); if no PENDING job is due, the
\* oldest FAILED job whose next_retry_at <= now; and None if there is neither.
\* So it returns no PROCESSING, COMPLETED or DEAD job, no FAILED job before
\* its retry time, and no FAILED job while a PENDING one is due.  Times are
\* compared as instants.
C15_ClaimSelection ==
    [][\A w \in Workers :
          Calls("get_pending_job", [worker_id |-> w]) =>
              LET Due(state) ==
                      {id \in Stored :
                          /\ db[id].state = state
                          /\ IF db[id].next_retry_at = NULL THEN state = "pending"
                             ELSE db[id].next_retry_at <= now}
                  IsOldestOf(r, S) ==
                      /\ r.id \in S
                      /\ \A other \in S : db[r.id].created_at <= db[other].created_at
              IN  IF Due("pending") # {}
                  THEN IsOldestOf(reply'.result, Due("pending"))
                  ELSE IF Due("failed") # {}
                  THEN IsOldestOf(reply'.result, Due("failed"))
                  ELSE reply'.result = NoJob]_vars

\* C16: a get_pending_job of worker w that returns job j leaves the row of j
\* with state PROCESSING and worker_id = w and every other row as it was; one
\* that returns None leaves the whole table as it was.
C16_ClaimWritesOneRow ==
    [][\A w \in Workers :
          Calls("get_pending_job", [worker_id |-> w]) =>
              IF reply'.result = NoJob
              THEN db' = db
              ELSE LET id == reply'.result.id IN
                   /\ id \in Stored
                   /\ DOMAIN db' = Stored
                   /\ db'[id].state = "processing"
                   /\ db'[id].worker_id = w
                   /\ \A other \in Stored \ {id} : db'[other] = db[other]]_vars

\* get_pending_job has just returned one of two stored jobs, and the other is
\* still PENDING and unclaimed
C16_Witness ==
    /\ reply.op = "get_pending_job"
    /\ reply.result # NoJob
    /\ db[reply.result.id].worker_id = reply.arg.worker_id
    /\ \E other \in Stored \ {reply.result.id} :
          /\ db[other].state = "pending"
          /\ db[other].next_retry_at = NULL
          /\ db[other].worker_id = NoWorker

MaxWorkers == Cardinality(Workers)
NoFile == {NoWorker}

\* the ledger is not read
load_pids_ignored == {}

\* _load_pids lines 144-153: a missing ledger reads as no pids
load_pids == IF pid_file = NoFile THEN {} ELSE pid_file

\* os.kill(pid, 0) / os.kill(pid, SIGTERM) finds the pid: the process runs, or
\* it has ended and its parent has not waited for it yet
probe(p) == alive[p] \/ zombie[p]

\* Process.kill / os.kill(pid, SIGKILL) lines 204, 225: the process is gone
force_kill_ignored(procs, p) == procs

force_killed(procs, p) == [procs EXCEPT ![p] = FALSE]

\* start_workers line 178: f"worker-{os.getpid()}-{i}", within one manager
\* (one pid)
worker_id(i) == <<"worker", "pid", i>>

\* _handle_signal lines 110-119, entered in the worker's main thread: with a
\* current job the handler waits for it, otherwise it sets the stop event
signalled(w) ==
    IF current_job[w] # NoJob
    THEN handling' = [handling EXCEPT ![w] = TRUE] /\ UNCHANGED stop_event
    ELSE stop_event' = TRUE /\ UNCHANGED handling

\* _handle_signal lines 115-119: the wait is over, the stop event is set and
\* the interrupted main thread goes on
HandlerReturns(w) ==
    /\ alive[w] /\ handling[w]
    /\ handling' = [handling EXCEPT ![w] = FALSE]
    /\ stop_event' = TRUE
    /\ UNCHANGED <<db, now, workerVars, cli, reply, handed, histVars, cfgVars,
                   alive, processes, pid_file, mgr, zombie, issued>>

\* a SIGTERM or SIGINT sent to a worker from outside the manager
Signal(w) ==
    /\ alive[w]
    /\ signalled(w)
    /\ UNCHANGED <<db, now, workerVars, cli, reply, handed, histVars, cfgVars,
                   alive, processes, pid_file, mgr, zombie, issued>>

\* Worker.run line 40: the loop condition sees the stop event, run returns
\* and the process exits
ExitLoop(w) ==
    /\ Runs(w) /\ ~loop_condition
    /\ pc[w] = "poll"
    /\ alive' = [alive EXCEPT ![w] = FALSE]
    /\ zombie' = [zombie EXCEPT ![w] = TRUE]
    /\ UNCHANGED <<db, now, workerVars, cli, reply, handed, histVars, cfgVars,
                   handling, stop_event, processes, pid_file, mgr, issued>>

\* the worker process is ended from outside (SIGKILL, out of memory) wherever
\* it stands
Crash(w) ==
    /\ alive[w]
    /\ alive' = [alive EXCEPT ![w] = FALSE]
    /\ zombie' = [zombie EXCEPT ![w] = TRUE]
    /\ UNCHANGED <<db, now, workerVars, cli, reply, handed, histVars, cfgVars,
                   handling, stop_event, processes, pid_file, mgr, issued>>

\* the parent of an ended worker waits for it (the exit of the process that
\* ran `worker start` joins its children one after the other)
Reap(w) ==
    /\ zombie[w]
    /\ zombie' = [zombie EXCEPT ![w] = FALSE]
    /\ UNCHANGED <<db, now, workerVars, cli, reply, handed, histVars, cfgVars,
                   alive, handling, stop_event, processes, pid_file, mgr, issued>>

\* stop_workers lines 191-195, called by `worker stop` (op "stop") or as the
\* first statement of start_workers line 168 (op "start").  A fresh
\* invocation of the command line is a new manager: it holds no handles, has
\* given out no worker id, and the event it sets is not the one the running
\* workers were given.
BeginStop(op, count, fresh) ==
    /\ mgr.pc = "idle"
    /\ processes' = IF fresh THEN {} ELSE processes
    /\ issued' = IF fresh THEN {} ELSE issued
    /\ stop_event' = IF processes' # {} THEN TRUE ELSE stop_event
    /\ mgr' = [pc |-> "handles", op |-> op, count |-> count,
               todo |-> processes', cur |-> NoWorker]
    /\ UNCHANGED <<db, now, workerVars, cli, reply, handed, histVars, cfgVars,
                   alive, handling, pid_file, zombie>>

\* stop_workers lines 197-199: the next handle; is_alive() waits for a child
\* that has ended, and join(timeout=5) is entered only for a live process
NextHandle ==
    /\ mgr.pc = "handles" /\ mgr.todo # {}
    /\ \E p \in mgr.todo :
         IF alive[p]
         THEN /\ mgr' = [mgr EXCEPT !.pc = "join5", !.cur = p]
              /\ UNCHANGED zombie
         ELSE /\ mgr' = [mgr EXCEPT !.todo = mgr.todo \ {p}]
              /\ zombie' = [zombie EXCEPT ![p] = FALSE]
    /\ UNCHANGED <<db, now, workerVars, cli, reply, handed, histVars, cfgVars,
                   alive, handling, stop_event, processes, pid_file, issued>>

\* stop_workers lines 199-202: join(5) is over; a process still alive gets
\* terminate() (SIGTERM) and join(timeout=2) starts
Join5Returns ==
    /\ mgr.pc = "join5"
    /\ IF alive[mgr.cur]
       THEN /\ signalled(mgr.cur)
            /\ mgr' = [mgr EXCEPT !.pc = "join2"]
            /\ UNCHANGED zombie
       ELSE /\ mgr' = [mgr EXCEPT !.pc = "handles", !.cur = NoWorker,
                                  !.todo = mgr.todo \ {mgr.cur}]
            /\ zombie' = [zombie EXCEPT ![mgr.cur] = FALSE]
            /\ UNCHANGED <<handling, stop_event>>
    /\ UNCHANGED <<db, now, workerVars, cli, reply, handed, histVars, cfgVars,
                   alive, processes, pid_file, issued>>

\* stop_workers lines 202-204: join(2) is over; a process still alive is
\* killed, and kill() is not followed by a join
Join2Returns ==
    /\ mgr.pc = "join2"
    /\ alive' = IF alive[mgr.cur] THEN force_killed(alive, mgr.cur) ELSE alive
    /\ zombie' = [zombie EXCEPT ![mgr.cur] = alive[mgr.cur]]
    /\ mgr' = [mgr EXCEPT !.pc = "handles", !.cur = NoWorker,
                          !.todo = mgr.todo \ {mgr.cur}]
    /\ UNCHANGED <<db, now, workerVars, cli, reply, handed, histVars, cfgVars,
                   handling, stop_event, processes, pid_file, issued>>

\* stop_workers line 207: the handles are done, the ledger is read
LoadPids ==
    /\ mgr.pc = "handles" /\ mgr.todo = {}
    /\ mgr' = [mgr EXCEPT !.pc = "ledger", !.todo = load_pids]
    /\ UNCHANGED <<db, now, workerVars, cli, reply, handed, histVars, cfgVars,
                   alive, handling, stop_event, processes, pid_file,
                   zombie, issued>>

\* stop_workers lines 208-219, 233-234: os.kill(pid, SIGTERM) raises
\* ProcessLookupError for a pid that is gone, else sleep(1) starts
NextPid ==
    /\ mgr.pc = "ledger" /\ mgr.todo # {}
    /\ \E p \in mgr.todo :
         IF probe(p)
         THEN /\ IF alive[p] THEN signalled(p)
                 ELSE UNCHANGED <<handling, stop_event>>
              /\ mgr' = [mgr EXCEPT !.pc = "sleep1", !.cur = p]
         ELSE /\ mgr' = [mgr EXCEPT !.todo = mgr.todo \ {p}]
              /\ UNCHANGED <<handling, stop_event>>
    /\ UNCHANGED <<db, now, workerVars, cli, reply, handed, histVars, cfgVars,
                   alive, processes, pid_file, zombie, issued>>

\* stop_workers lines 219-232: after sleep(1) a pid that os.kill(pid, 0)
\* still finds gets SIGKILL
Sleep1Returns ==
    /\ mgr.pc = "sleep1"
    /\ alive' = IF alive[mgr.cur] THEN force_killed(alive, mgr.cur) ELSE alive
    /\ zombie' = IF alive[mgr.cur] THEN [zombie EXCEPT ![mgr.cur] = TRUE]
                 ELSE zombie
    /\ mgr' = [mgr EXCEPT !.pc = "ledger", !.cur = NoWorker,
                          !.todo = mgr.todo \ {mgr.cur}]
    /\ UNCHANGED <<db, now, workerVars, cli, reply, handed, histVars, cfgVars,
                   handling, stop_event, processes, pid_file, issued>>

\* stop_workers lines 238-239: the handles are dropped, the ledger unlinked
EndStop ==
    /\ mgr.pc = "ledger" /\ mgr.todo = {}
    /\ processes' = {}
    /\ pid_file' = NoFile
    /\ mgr' = IF mgr.op = "start" THEN [mgr EXCEPT !.pc = "spawn"] ELSE NoCall
    /\ UNCHANGED <<db, now, workerVars, cli, reply, handed, histVars, cfgVars,
                   alive, handling, stop_event, zombie, issued>>

\* the worker ids start_workers gives to the processes of one call
new_worker_ids(count) == {worker_id(i) : i \in 0..(count - 1)}

\* start_workers lines 170-189: a new event, `count` new processes, each with
\* its worker id, loading the config file (worker_process lines 124-127) and
\* running Worker.run from its first statement; their pids are saved.  A new
\* process gets a pid that no process, ended or not, still has.
Spawn ==
    /\ mgr.pc = "spawn"
    /\ \E S \in SUBSET {w \in Workers : ~probe(w)} :
         /\ Cardinality(S) = mgr.count
         /\ alive' = [w \in Workers |-> alive[w] \/ w \in S]
         /\ handling' = [w \in Workers |-> handling[w] /\ w \notin S]
         /\ pc' = [w \in Workers |-> IF w \in S THEN "poll" ELSE pc[w]]
         /\ current_job' = [w \in Workers |->
                              IF w \in S THEN NoJob ELSE current_job[w]]
         /\ config' = [w \in Workers |->
                         IF w \in S THEN config_file ELSE config[w]]
         /\ processes' = S
         /\ pid_file' = S
    /\ issued' = issued \cup new_worker_ids(mgr.count)
    /\ stop_event' = FALSE
    /\ mgr' = NoCall
    /\ UNCHANGED <<db, now, cli, reply, handed, histVars, zombie, config_file>>

\* get_active_worker_count lines 241-266 of a manager that holds the given
\* handles: live handles, plus pids of the ledger that os.kill(pid, 0) finds
\* and that are not handles
active_worker_count(handles) ==
    Cardinality({p \in handles : alive[p]})
    + Cardinality({p \in load_pids : probe(p) /\ p \notin handles})

\* the call made by the acting manager
get_active_worker_count == active_worker_count(processes)

\* no worker has been started yet
SupervisorInit ==
    /\ InitJobs
    /\ alive = [w \in Workers |-> FALSE]
    /\ handling = [w \in Workers |-> FALSE]
    /\ stop_event = FALSE
    /\ processes = {}
    /\ pid_file = NoFile
    /\ mgr = NoCall
    /\ zombie = [w \in Workers |-> FALSE]
    /\ issued = {}
    /\ config_file = default_config
    /\ config = [w \in Workers |-> default_config]

SupervisorNext ==
    \/ \E count \in 1..MaxWorkers, fresh \in BOOLEAN :
         BeginStop("start", count, fresh)
    \/ \E fresh \in BOOLEAN : BeginStop("stop", 0, fresh)
    \/ NextHandle
    \/ Join5Returns
    \/ Join2Returns
    \/ LoadPids
    \/ NextPid
    \/ Sleep1Returns
    \/ EndStop
    \/ Spawn
    \/ \E w \in Workers : Signal(w)
    \/ \E w \in Workers : HandlerReturns(w)
    \/ \E w \in Workers : ExitLoop(w)
    \/ \E w \in Workers : Crash(w)
    \/ \E w \in Workers : Reap(w)
    \/ \E w \in Workers : GetPendingJob(w)
    \/ \E w \in Workers : RecordCompleted(w)
    \/ \E w \in Workers : HandleFailure(w)
    \/ \E id \in JobIds, command \in Commands : Enqueue(id, command, 0)
    \/ \E id \in JobIds : RetryRead(id)
    \/ RetryWrite

SupervisorSpec == SupervisorInit /\ [][SupervisorNext]_vars

\* the step belongs to a start_workers or stop_workers call
ManagerStep == mgr' # mgr

\* C18: job records survive worker restarts: no step removes a row, the steps
\* of start_workers and stop_workers leave every row as it is, and a PENDING
\* row changes only by the claim of a live worker, which changes nothing but
\* state and worker_id.
C18_RecordsSurviveRestarts ==
    [][/\ DOMAIN db \subseteq DOMAIN db'
       /\ ManagerStep => db' = db
       /\ \A id \in Stored :
            (db[id].state = "pending" /\ db'[id] # db[id]) =>
                \E w \in Workers :
                    /\ alive[w] /\ alive'[w]
                    /\ Claims(w)
                    /\ db'[id] = [db[id] EXCEPT !.state = "processing",
                                                !.worker_id = w]]_vars

\* workers ran a job and were stopped; no process is left, the ledger is
\* gone, and another job waits in PENDING
C18_Witness ==
    /\ mgr = NoCall /\ pid_file = NoFile
    /\ \A w \in Workers : ~alive[w]
    /\ \E id1, id2 \in Stored :
         /\ db[id1].state \in {"completed", "dead"}
         /\ db[id2].state = "pending"

\* the worker process ends in this step: its loop returns or it is killed
Exits(w) == alive[w] /\ ~alive'[w]

\* the worker process is ended by a step of stop_workers
Stopped(w) == Exits(w) /\ ManagerStep

\* C19: a worker that is stopped, by the stop event or by a termination
\* signal, while it has a job in flight records the outcome of that job
\* before its process ends: stop_workers ends no worker process that has its
\* job in flight, the row still PROCESSING.
C19_StopFinishesJobInFlight ==
    [][\A w \in Workers :
         Stopped(w) => ~(InFlight(w) /\ db[current_job[w].id].state = "processing")]_vars

\* the step is the return of stop_workers
StopWorkersReturns ==
    mgr.pc = "ledger" /\ mgr'.pc \in {"idle", "spawn"}

\* C20: when stop_workers returns, every process it held a handle of and
\* every process the PID ledger listed has exited, the handle list is empty,
\* the ledger is removed and get_active_worker_count gives 0.
C20_StopWorkersPostcondition ==
    [][StopWorkersReturns =>
         /\ \A p \in processes : ~alive'[p]
         /\ \A p \in load_pids : ~alive'[p]
         /\ processes' = {}
         /\ pid_file' = NoFile
         /\ get_active_worker_count' = 0]_vars

\* stop_workers has returned after it killed a worker that was waiting in its
\* signal handler
C20_Witness ==
    /\ mgr = NoCall /\ processes = {} /\ pid_file = NoFile
    /\ \E w \in Workers : ~alive[w] /\ handling[w]

\* the step is the return of start_workers
StartWorkersReturns ==
    mgr.pc = "spawn" /\ mgr'.pc = "idle"

\* C21: when start_workers(count) returns, the value it returns
\* (len(self.processes)) is count, the PID ledger lists exactly the count
\* processes just spawned, and these are the only live workers: every worker
\* of an earlier call had exited before the new ones were spawned.
C21_StartWorkersPostcondition ==
    [][StartWorkersReturns =>
         /\ \A w \in Workers : ~alive[w]
         /\ Cardinality(processes') = mgr.count
         /\ pid_file' = processes'
         /\ {w \in Workers : alive'[w]} = processes']_vars

\* start_workers has returned with its new worker running, after it killed a
\* worker of an earlier call that was waiting in its signal handler
C21_Witness ==
    /\ mgr = NoCall /\ processes # {} /\ pid_file = processes
    /\ \A w \in processes : alive[w]
    /\ \E v \in Workers \ processes : ~alive[v] /\ handling[v]

\* C22: get_active_worker_count, called by the manager that holds the handles
\* or by a fresh one (as `status` does), returns the number of distinct live
\* worker processes among its handles and the pids of the ledger: a handle or
\* ledger entry whose process has ended is not counted.
C22_ActiveWorkerCount ==
    \A handles \in {processes, {}} :
        active_worker_count(handles) =
            Cardinality({p \in handles \cup load_pids : alive[p]})

\* C23: an enqueue that stores a job stores it PENDING with attempts = 0 and
\* with the max_retries of its JSON object or, without one, the max_retries
\* of the config file at that moment; and no step, a rewrite of the config
\* file included, removes a row or changes its id, command, max_retries or
\* created_at.
C23_EnqueueFreezesFields ==
    [][/\ \A data \in JobData :
            (data.id \notin Stored /\ DOMAIN db' # Stored /\ enqueue(data)) =>
                /\ data.id \in DOMAIN db'
                /\ db'[data.id].state = "pending"
                /\ db'[data.id].attempts = 0
                /\ db'[data.id].max_retries =
                       IF data.max_retries = NULL THEN config_file.max_retries
                       ELSE data.max_retries
       /\ \A id \in Stored :
            /\ id \in DOMAIN db'
            /\ db'[id].id = db[id].id
            /\ db'[id].command = db[id].command
            /\ db'[id].max_retries = db[id].max_retries
            /\ db'[id].created_at = db[id].created_at]_vars

\* a job that a worker recorded DEAD and dlq retry put back has a max_retries
\* other than the one now in the config file
C23_Witness ==
    \E id \in Stored :
        /\ Revived(id)
        /\ db[id].worker_id = NoWorker
        /\ db[id].max_retries # config_file.max_retries

\* C24: a job whose command exits with status 0 is never stored as DEAD and
\* never has a failure counted in attempts, also when the update_job that
\* writes COMPLETED raises.
C24_ZeroExitNeverDead ==
    \A id \in Stored :
        db[id].command = "ok" => (db[id].state # "dead" /\ db[id].attempts = 0)

\* the step runs the handler of Worker.run (lines 54-62) for worker w with a
\* current job: get_pending_job has raised while the worker still refers to
\* a job, or update_job has raised in an except clause of _process_job
FaultHandlerRuns(w) ==
    /\ current_job[w] # NoJob /\ pc'[w] = "poll"
    /\ GetPendingJobRaises(w) \/ HandleFailureRaises(w)

\* C25: when a fault reaches the worker loop while current_job is set, the
\* worker marks that job FAILED and tries to write it: the row either stays
\* as it was (the write failed too) or gets state FAILED with its attempts
\* unchanged, no other row changes, and the worker process stays alive and
\* goes on polling.
C25_FaultHandlerWritesFailed ==
    [][\A w \in Workers :
          FaultHandlerRuns(w) =>
              LET id == current_job[w].id IN
              /\ current_job'[w].id = id
              /\ current_job'[w].state = "failed"
              /\ \/ db' = db
                 \/ /\ DOMAIN db' = Stored
                    /\ db'[id].state = "failed"
                    /\ db'[id].attempts = db[id].attempts
                    /\ db'[id].worker_id = w
                    /\ \A other \in Stored \ {id} : db'[other] = db[other]
              /\ alive'[w] /\ pc'[w] = "poll"]_vars

\* a worker whose fault handler has written FAILED for a job has since
\* claimed another job
C25_Witness ==
    \E w \in Workers, id \in Stored :
        /\ pc[w] = "running"
        /\ current_job[w].id # id
        /\ db[id].state = "failed"
        /\ db[id].worker_id = w

\* the step sets the stop event, or puts worker w into its signal handler
StopRequested(w) ==
    \/ stop_event' /\ ~stop_event
    \/ handling'[w] /\ ~handling[w]

\* C26: the stop event is read at the head of the loop only.  While it is
\* set no worker claims a job; a worker that stands at the head of the loop
\* with the event set can leave the loop; and a step that sets the event or
\* enters a signal handler changes nothing of a worker's position, its
\* current job, its process or the rows.
C26_StopCheckedBetweenIterations ==
    [][\A w \in Workers :
          /\ stop_event => ~Claims(w)
          /\ (stop_event /\ Runs(w) /\ pc[w] = "poll") => ENABLED ExitLoop(w)
          /\ StopRequested(w) =>
                /\ pc'[w] = pc[w]
                /\ current_job'[w] = current_job[w]
                /\ alive'[w] = alive[w]
                /\ db' = db]_vars

\* the stop event is set, one worker has left its loop, and another one is
\* still running the job it claimed before
C26_Witness ==
    /\ stop_event
    /\ \E w, gone \in Workers :
         /\ alive[w] /\ ~handling[w] /\ pc[w] = "running"
         /\ db[current_job[w].id].state = "processing"
         /\ ~alive[gone] /\ pc[gone] = "poll" /\ current_job[gone] = NoJob
         /\ gone \in processes

\* ------------------------------------------ crashes, restarts and store faults
\* Workers are started and stopped by command-line invocations (each a new
\* manager, which finds the workers through the ledger), crash at any point,
\* and their store calls may raise.
AbandonNext ==
    \/ \E count \in 1..MaxWorkers : BeginStop("start", count, TRUE)
    \/ BeginStop("stop", 0, TRUE)
    \/ LoadPids
    \/ NextPid
    \/ Sleep1Returns
    \/ EndStop
    \/ Spawn
    \/ \E w \in Workers : HandlerReturns(w)
    \/ \E w \in Workers : ExitLoop(w)
    \/ \E w \in Workers : Crash(w)
    \/ \E w \in Workers : Reap(w)
    \/ \E w \in Workers : GetPendingJob(w)
    \/ \E w \in Workers : GetPendingJobRaises(w)
    \/ \E w \in Workers : RecordCompleted(w)
    \/ \E w \in Workers : RecordCompletedRaises(w)
    \/ \E w \in Workers : HandleFailure(w)
    \/ \E w \in Workers : HandleFailureRaises(w)
    \/ \E id \in JobIds, command \in Commands : Enqueue(id, command, 0)
    \/ \E id \in JobIds : RetryRead(id)
    \/ RetryWrite

AbandonSpec == SupervisorInit /\ [][AbandonNext]_vars

\* row id is PROCESSING and no live worker process holds a Job object for it:
\* the worker that claimed it has crashed or was killed
Abandoned(id) ==
    /\ db[id].state = "processing"
    /\ \A w \in Workers :
         alive[w] => (current_job[w] = NoJob \/ current_job[w].id # id)

\* C27: a job left in PROCESSING by a worker that crashed or was killed is
\* never handed out again and its row never changes, whatever the workers,
\* start_workers, stop_workers and dlq retry do afterwards.
C27_AbandonedStaysProcessing ==
    [][\A id \in Stored :
          Abandoned(id) =>
              /\ db'[id] = db[id]
              /\ handed'[id] = handed[id]
              /\ \A w \in Workers :
                   alive'[w] =>
                       (current_job'[w] = NoJob \/ current_job'[w].id # id)]_vars

\* a job was abandoned in PROCESSING; since then workers were started again,
\* and one of them runs another job
C27_Witness ==
    \E id \in Stored, w \in Workers :
        /\ Abandoned(id)
        /\ mgr = NoCall
        /\ alive[w] /\ pc[w] = "running"
        /\ db[id].worker_id = w
        /\ db[current_job[w].id].created_at >= db[id].created_at

\* C28: every step that changes the stored state of a job also stores the
\* time of that step as its updated_at.
C28_StateChangeRefreshesUpdatedAt ==
    [][\A id \in Stored :
          db'[id].state # db[id].state =>
              db'[id].updated_at = isoformat_z(utcnow(now))]_vars

\* C29: the worker ids a start_workers call gives out differ from every id
\* the same manager has given out before.
C29_WorkerIdsUnique ==
    [][StartWorkersReturns =>
         new_worker_ids(mgr.count) \cap issued = {}]_vars

\* C30: what a running worker's Config.get("backoff_base") returns is what
\* the config file holds at that moment.
C30_WorkerSeesConfigFile ==
    \A w \in Workers :
        alive[w] =>
            Config_get(config[w], "backoff_base")
                = Config_get(config_file, "backoff_base")

\* the job the next update_job of worker w is issued for: Worker.run, the
\* outcome write and the fault handler all write through current_job
WriteTarget(w) == current_job[w]

\* C31: whenever a worker holds a job it will issue an update_job for, the
\* stored row of that job is PROCESSING with this worker's id: the worker
\* holds no job it has finished handling.
C31_WorkerWritesItsProcessingJob ==
    \A w \in Workers :
        WriteTarget(w) # NoJob =>
            /\ WriteTarget(w).id \in Stored
            /\ db[WriteTarget(w).id].state = "processing"
            /\ db[WriteTarget(w).id].worker_id = w

\* row id is FAILED without a retry time
FailedWithoutRetryTime(id) ==
    db[id].state = "failed" /\ db[id].next_retry_at = NULL

\* C32: a row that is FAILED with next_retry_at NULL is no candidate of
\* get_pending_job and is refused by dlq retry; no step hands it to a worker
\* or starts a dlq retry write for it, and after every step it is still
\* FAILED with next_retry_at NULL.
C32_FailedWithoutRetryTimeStays ==
    [][\A id \in Stored :
          FailedWithoutRetryTime(id) =>
              /\ id \notin Candidates(isoformat_z(utcnow(now)))
              /\ retry_rejects(row_to_job(db[id]))
              /\ \A w \in Workers : Claims(w) => current_job'[w].id # id
              /\ cli'.pc = "retry_write" => cli'.job.id # id
              /\ handed'[id] = handed[id]
              /\ db'[id].state = "failed"
              /\ db'[id].next_retry_at = NULL]_vars

\* the fault handler left a job FAILED without a retry time, and a job was
\* finished at a later time while the first one stayed as it was
C32_Witness ==
    \E id, other \in Stored :
        /\ FailedWithoutRetryTime(id)
        /\ db[other].state \in {"completed", "dead"}
        /\ db[other].updated_at > db[id].updated_at
        /\ now > db[id].updated_at

====
